---- MODULE Spec2Model ----
(***************************************************************************)
(* Model of html_find (src/src/main.rs): a crawler that fetches a page or  *)
(* a two-level XML sitemap, resolves the <a href> / <img src> references   *)
(* of each page, deduplicates them through the `viewed` map and probes     *)
(* each admitted URL in a spawned task that prints "<url> is OK" or        *)
(* "<url> is Broken".                                                      *)
(*                                                                         *)
(* A string is a sequence of tokens ("https://", host labels, "/", path    *)
(* segments), so that parsing, resolution against a base and the           *)
(* substring test of filter_urls are computed on the text.                 *)
(***************************************************************************)
EXTENDS Naturals, Integers, Sequences, FiniteSets, TLC

\* Number of <a>/<img> nodes and of <loc> nodes read from one document.
MaxRefs == 4
MaxLocs == 4

----------------------------------------------------------------------------
(* Strings and URLs                                                        *)

Range(s) == {s[i] : i \in 1..Len(s)}

Take(s, n) == SubSeq(s, 1, IF Len(s) < n THEN Len(s) ELSE n)

SCHEME == "https://"

\* Index of the first "/" after the scheme, Len(s)+1 when there is none.
FirstSlash(s) ==
    IF \E i \in 2..Len(s) : s[i] = "/"
    THEN CHOOSE i \in 2..Len(s) : s[i] = "/" /\ \A j \in 2..(i-1) : s[j] # "/"
    ELSE Len(s) + 1

LastSlash(s) ==
    CHOOSE i \in 1..Len(s) : s[i] = "/" /\ \A j \in (i+1)..Len(s) : s[j] # "/"

\* Url::host_str: the authority between the scheme and the path.
host_str(u) == SubSeq(u, 2, FirstSlash(u) - 1)

\* &url[..Position::BeforePath]
BeforePath(u) == SubSeq(u, 1, FirstSlash(u) - 1)

\* Url::parse(s): <<>> is Err, <<u>> is Ok(u) with u the canonical string.
\* A string without scheme is RelativeUrlWithoutBase, an empty host or a
\* host holding "[" is an invalid host; an empty path serialises as "/".
url_parse(s) ==
    IF Len(s) = 0 \/ s[1] # SCHEME THEN <<>>
    ELSE IF host_str(s) = <<>> \/ "[" \in Range(host_str(s)) THEN <<>>
    ELSE IF FirstSlash(s) > Len(s) THEN << s \o <<"/">> >>
    ELSE <<s>>

\* The raw reference is kept as it is when it does not resolve.
base_parse_keep(base, s) ==
    IF Len(s) = 0 THEN <<base>>
    ELSE IF s[1] = SCHEME THEN (IF url_parse(s) = <<>> THEN <<s>> ELSE url_parse(s))
    ELSE IF s[1] = "//" THEN <<<<SCHEME>> \o Tail(s)>>
    ELSE IF s[1] = "/" THEN <<BeforePath(base) \o s>>
    ELSE <<SubSeq(base, 1, LastSlash(base)) \o s>>

\* A path-relative reference is appended to the root of the base.
base_parse_rootrel(base, s) ==
    IF Len(s) = 0 THEN <<base>>
    ELSE IF s[1] = SCHEME THEN url_parse(s)
    ELSE IF s[1] = "//" THEN url_parse(<<SCHEME>> \o Tail(s))
    ELSE IF s[1] = "/" THEN <<BeforePath(base) \o s>>
    ELSE <<BeforePath(base) \o <<"/">> \o s>>

\* Url::options().base_url(Some(base)).parse(s)
base_parse(base, s) ==
    IF Len(s) = 0 THEN <<base>>
    ELSE IF s[1] = SCHEME THEN url_parse(s)
    ELSE IF s[1] = "//" THEN url_parse(<<SCHEME>> \o Tail(s))
    ELSE IF s[1] = "/" THEN <<BeforePath(base) \o s>>
    ELSE <<SubSeq(base, 1, LastSlash(base)) \o s>>

\* str::contains
Contains(s, h) ==
    \E i \in 1..(Len(s) + 1) :
        /\ i + Len(h) - 1 <= Len(s)
        /\ SubSeq(s, i, i + Len(h) - 1) = h

----------------------------------------------------------------------------
(* The documents served                                                    *)

Doc(b, a, i, l) == [base |-> b, a |-> a, img |-> i, loc |-> l]
EmptyDoc == Doc(<<>>, <<>>, <<>>, <<>>)

X(path) == <<SCHEME, "x.test">> \o path

R     == X(<<"/", "sitemap.xml">>)
RB    == X(<<"/", "bad.xml">>)
S1    == X(<<"/", "s1.xml">>)
S2    == X(<<"/", "s2.xml">>)
PQ    == X(<<"/", "p", "/", "q">>)
P2    == X(<<"/", "p2">>)
IDX   == X(<<"/", "index.html">>)
BQ    == X(<<"/", "b.html">>)
FLAKY == X(<<"/", "flaky">>)
NP    == <<SCHEME, "not", "x.test", "/", "p3">>
OUTS  == <<SCHEME, "cdn.test", "/", "s.xml">>
OUTP  == <<SCHEME, "cdn.test", "/", "x">>
CDN   == <<SCHEME, "cdn.test", "/">>
NOSCHEME == <<"x.test", "/", "p9">>
BADHOST  == <<SCHEME, "[">>

Web(u) ==
    CASE u = R   -> Doc(<<>>, <<>>, <<>>, <<S1, S2, OUTS, S1>>)
      [] u = RB  -> Doc(<<>>, <<>>, <<>>, <<NOSCHEME>>)
      [] u = S1  -> Doc(<<>>, <<>>, <<>>, <<PQ, P2, OUTP, PQ, S1>>)
      [] u = S2  -> Doc(<<>>, <<>>, <<>>, <<P2, NP, R>>)
      [] u = PQ  -> Doc(<<>>,
                        << <<"/", "flaky">>, BADHOST, FLAKY, P2, <<"/", "dead">> >>,
                        << <<"c.png">>, <<"/", "flaky">>, <<"/", "dead">>, OUTP >>,
                        <<>>)
      [] u = P2  -> Doc(<<CDN>>,
                        << <<"/", "ok">> >>,
                        << <<"c.png">>, BADHOST >>,
                        <<>>)
      [] u = NP  -> Doc(<<>>, << <<"/", "ok">>, <<"c.png">> >>, <<>>, <<>>)
      [] u = IDX -> Doc(<<CDN>>,
                        << <<"c.png">>, <<"/", "ok">>, X(<<"/", "ok">>), OUTP >>,
                        << <<"c.png">>, <<"//", "cdn.test", "/", "ok">> >>,
                        <<>>)
      [] u = BQ  -> Doc(<<PQ>>,
                        << <<"/", "a", "/", "b">>, <<"c.png">>, OUTP >>,
                        << <<"c.png">> >>,
                        <<>>)
      [] OTHER   -> EmptyDoc

TransportError == "err"
StatusSet == {"200", "204", "301", "404", "500", TransportError}

\* What the server answers to a probe of u; the answer for FLAKY is an input.
Status(u, f) ==
    IF u = FLAKY THEN f
    ELSE IF u[Len(u)] = "dead" THEN "404"
    ELSE "200"

RootArgs == {R, RB, PQ, IDX, BQ, NOSCHEME}

----------------------------------------------------------------------------
(* Functions of main.rs                                                    *)

\* get_base_url
get_base_url(u, doc) ==
    IF doc.base # <<>> THEN url_parse(doc.base[1]) ELSE url_parse(BeforePath(u))

\* Any 2xx status counts as success.
check_link_2xx(st) ==
    IF st = TransportError THEN <<>> ELSE <<st \in {"200", "204"}>>

\* check_link: <<>> is Err, <<b>> is Ok(b).
check_link(st) ==
    IF st = TransportError THEN <<>> ELSE <<st = "200">>

\* document.find(Name(element)).filter_map(attr)
find_attr(doc, element) == Take(doc[element], MaxRefs)

\* The links set of find_broken_links_or_images.
resolved_links(base, doc, element) ==
    UNION { Range(base_parse(base, find_attr(doc, element)[i])) :
                i \in 1..Len(find_attr(doc, element)) }

Reverse(q) == [i \in 1..Len(q) |-> q[Len(q) + 1 - i]]

\* The locations come out last first.
extract_urls_reversed(doc) == Reverse(Take(doc.loc, MaxLocs))

extract_urls(doc) == Take(doc.loc, MaxLocs)

filter_urls_all(urls, domain) == urls

filter_urls(urls, domain) ==
    SelectSeq(urls, LAMBDA s : Contains(s, host_str(domain)))

\* A failed request yields an empty document instead of an error.
get_document_lenient(u, netok) == IF netok THEN <<Web(u)>> ELSE <<EmptyDoc>>

\* get_document: <<>> is Err.
get_document(u, netok) == IF netok THEN <<Web(u)>> ELSE <<>>

contains_key_never(v, k) == FALSE

contains_key(v, k) == k \in v

task_finished_always(t) == TRUE

\* The handle never becomes ready.
task_finished_never(t) == FALSE

\* The JoinHandle of t is ready.
task_finished(t) == t.st \in {"ok", "broken", "panicked"}

Line(u, text) == [url |-> u, text |-> text]
Starting == Line(<<>>, "Starting...")
Done     == Line(<<>>, "Done!")

----------------------------------------------------------------------------
(* State                                                                   *)

VARIABLES
    args,           \* the command line
    flaky,          \* the status the server gives to FLAKY
    pc,             \* position of main
    url,            \* parsed root URL
    document,       \* root document
    base_url,       \* base URL computed for the root document
    viewed,         \* keys of the viewed map
    filtered_urls,  \* first-level locations still to iterate
    internal_filtered_urls, \* second-level locations still to iterate
    target,         \* location being fetched: its text and its parsed URL
    cur,            \* document handed to find_broken_links_or_images
    element,        \* "a" or "img"
    links,          \* links still to iterate in the for loop
    rt,             \* every task spawned on the runtime
    handles,        \* the tasks vector of the current call
    out,            \* lines printed
    fetched,        \* requests made by get_document
    err,            \* why main returned Err
    netfail,        \* a document request failed at transport level
    admittedLocs,   \* location strings inserted by the sitemap loops
    admitted,       \* every insert into viewed, in order
    batches         \* every call of find_broken_links_or_images, in order

vars == <<args, flaky, pc, url, document, base_url, viewed, filtered_urls,
          internal_filtered_urls, target, cur, element, links, rt, handles,
          out, fetched, err, netfail, admittedLocs, admitted, batches>>

Init ==
    /\ args \in [url : RootArgs, links : BOOLEAN, is_xml_sitemap : BOOLEAN,
                 check_images : BOOLEAN]
    /\ flaky \in StatusSet
    /\ pc = "start"
    /\ url = <<>>
    /\ document = EmptyDoc
    /\ base_url = <<>>
    /\ viewed = {}
    /\ filtered_urls = <<>>
    /\ internal_filtered_urls = <<>>
    /\ target = [url |-> <<>>, loc |-> <<>>]
    /\ cur = [url |-> <<>>, doc |-> EmptyDoc]
    /\ element = "a"
    /\ links = {}
    /\ rt = <<>>
    /\ handles = <<>>
    /\ out = <<>>
    /\ fetched = <<>>
    /\ err = "none"
    /\ netfail = FALSE
    /\ admittedLocs = {}
    /\ admitted = <<>>
    /\ batches = <<>>

Fail(cause) == pc' = "failed" /\ err' = cause

AfterDoc == IF args.is_xml_sitemap THEN "loop2" ELSE "finish"

\* URL of the first-level sitemap whose locations the inner for iterates.
SitemapUrl ==
    fetched[CHOOSE j \in 1..Len(fetched) :
               fetched[j].level = 1
               /\ \A n \in (j+1)..Len(fetched) : fetched[n].level # 1].url

\* main.rs 116-117
ParseRoot ==
    /\ pc = "start"
    /\ IF url_parse(args.url) = <<>>
       THEN Fail("urlparse") /\ UNCHANGED url
       ELSE url' = url_parse(args.url)[1] /\ pc' = "fetch_root" /\ UNCHANGED err
    /\ UNCHANGED <<args, flaky, document, base_url, viewed, filtered_urls,
                   internal_filtered_urls, target, cur, element, links, rt,
                   handles, out, fetched, netfail, admittedLocs, admitted, batches>>

\* main.rs 118
FetchRoot ==
    /\ pc = "fetch_root"
    /\ \E netok \in BOOLEAN :
        /\ fetched' = Append(fetched, [url |-> url, level |-> 0, loc |-> args.url])
        /\ netfail' = (netfail \/ ~netok)
        /\ IF get_document(url, netok) = <<>>
           THEN Fail("fetch") /\ UNCHANGED document
           ELSE /\ document' = get_document(url, netok)[1]
                /\ pc' = "base"
                /\ UNCHANGED err
    /\ UNCHANGED <<args, flaky, url, base_url, viewed, filtered_urls,
                   internal_filtered_urls, target, cur, element, links, rt,
                   handles, out, admittedLocs, admitted, batches>>

\* main.rs 119-125 and 155
ResolveBase ==
    /\ pc = "base"
    /\ IF get_base_url(url, document) = <<>>
       THEN /\ Fail("urlparse")
            /\ UNCHANGED <<base_url, out, filtered_urls, cur>>
       ELSE /\ base_url' = get_base_url(url, document)[1]
            /\ out' = Append(out, Starting)
            /\ UNCHANGED err
            /\ IF args.is_xml_sitemap
               THEN /\ filtered_urls' =
                          filter_urls(extract_urls(document), base_url')
                    /\ pc' = "loop1"
                    /\ UNCHANGED cur
               ELSE /\ cur' = [url |-> url, doc |-> document]
                    /\ pc' = "links"
                    /\ UNCHANGED filtered_urls
    /\ UNCHANGED <<args, flaky, url, document, viewed, internal_filtered_urls,
                   target, element, links, rt, handles, fetched, netfail,
                   admittedLocs, admitted, batches>>

\* main.rs 128-134: one iteration of the outer for, up to Url::parse
Loop1 ==
    /\ pc = "loop1"
    /\ IF filtered_urls = <<>>
       THEN /\ pc' = "finish"
            /\ UNCHANGED <<filtered_urls, viewed, admittedLocs, admitted, target, err>>
       ELSE /\ filtered_urls' = Tail(filtered_urls)
            /\ IF contains_key(viewed, Head(filtered_urls))
               THEN UNCHANGED <<pc, viewed, admittedLocs, admitted, target, err>>
               ELSE /\ viewed' = viewed \cup {Head(filtered_urls)}
                    /\ admittedLocs' = admittedLocs \cup {Head(filtered_urls)}
                    /\ admitted' = Append(admitted,
                          [key |-> Head(filtered_urls), by |-> "loc1",
                           doc |-> url])
                    /\ IF url_parse(Head(filtered_urls)) = <<>>
                       THEN Fail("urlparse") /\ UNCHANGED target
                       ELSE /\ target' = [url |-> url_parse(Head(filtered_urls))[1],
                                        loc |-> Head(filtered_urls)]
                            /\ pc' = "fetch1"
                            /\ UNCHANGED err
    /\ UNCHANGED <<args, flaky, url, document, base_url,
                   internal_filtered_urls, cur, element, links, rt, handles,
                   out, fetched, netfail, batches>>

\* main.rs 134-136
FetchSitemap ==
    /\ pc = "fetch1"
    /\ \E netok \in BOOLEAN :
        /\ fetched' = Append(fetched, [url |-> target.url, level |-> 1, loc |-> target.loc])
        /\ netfail' = (netfail \/ ~netok)
        /\ IF get_document(target.url, netok) = <<>>
           THEN Fail("fetch") /\ UNCHANGED internal_filtered_urls
           ELSE /\ internal_filtered_urls' =
                      filter_urls(extract_urls(get_document(target.url, netok)[1]),
                                  base_url)
                /\ pc' = "loop2"
                /\ UNCHANGED err
    /\ UNCHANGED <<args, flaky, url, document, base_url, viewed, filtered_urls,
                   target, cur, element, links, rt, handles, out, admittedLocs, admitted, batches>>

\* main.rs 138-144: one iteration of the inner for, up to Url::parse
Loop2 ==
    /\ pc = "loop2"
    /\ IF internal_filtered_urls = <<>>
       THEN /\ pc' = "loop1"
            /\ UNCHANGED <<internal_filtered_urls, viewed, admittedLocs,
                           admitted, target, err>>
       ELSE /\ internal_filtered_urls' = Tail(internal_filtered_urls)
            /\ IF contains_key(viewed, Head(internal_filtered_urls))
               THEN UNCHANGED <<pc, viewed, admittedLocs, admitted, target, err>>
               ELSE /\ viewed' = viewed \cup {Head(internal_filtered_urls)}
                    /\ admittedLocs' =
                          admittedLocs \cup {Head(internal_filtered_urls)}
                    /\ admitted' = Append(admitted,
                          [key |-> Head(internal_filtered_urls), by |-> "loc2",
                           doc |-> SitemapUrl])
                    /\ IF url_parse(Head(internal_filtered_urls)) = <<>>
                       THEN Fail("urlparse") /\ UNCHANGED target
                       ELSE /\ target' =
                                  [url |-> url_parse(Head(internal_filtered_urls))[1],
                                   loc |-> Head(internal_filtered_urls)]
                            /\ pc' = "fetch2"
                            /\ UNCHANGED err
    /\ UNCHANGED <<args, flaky, url, document, base_url, filtered_urls, cur,
                   element, links, rt, handles, out, fetched, netfail, batches>>

\* main.rs 144
FetchPage ==
    /\ pc = "fetch2"
    /\ \E netok \in BOOLEAN :
        /\ fetched' = Append(fetched, [url |-> target.url, level |-> 2, loc |-> target.loc])
        /\ netfail' = (netfail \/ ~netok)
        /\ IF get_document(target.url, netok) = <<>>
           THEN Fail("fetch") /\ UNCHANGED cur
           ELSE /\ cur' = [url |-> target.url, doc |-> get_document(target.url, netok)[1]]
                /\ pc' = "links"
                /\ UNCHANGED err
    /\ UNCHANGED <<args, flaky, url, document, base_url, viewed, filtered_urls,
                   internal_filtered_urls, target, element, links, rt, handles,
                   out, admittedLocs, admitted, batches>>

\* main.rs 59-67: entry of find_broken_links_or_images
BeginBatch(el) ==
    /\ element' = el
    /\ links' = resolved_links(base_url, cur.doc, el)
    /\ handles' = <<>>
    /\ batches' = Append(batches, [doc |-> cur.url, el |-> el])
    /\ pc' = "fbl"

\* The <a> batch runs whether or not find-broken-links was given.
CheckLinks_always ==
    /\ pc = "links"
    /\ BeginBatch("a")
    /\ UNCHANGED <<args, flaky, url, document, base_url, viewed, filtered_urls,
                   internal_filtered_urls, target, cur, rt, out, fetched, err,
                   netfail, admittedLocs, admitted>>

\* main.rs 145-148 and 156-158
CheckLinks ==
    /\ pc = "links"
    /\ IF args.links
       THEN BeginBatch("a")
       ELSE pc' = "images" /\ UNCHANGED <<element, links, handles, batches>>
    /\ UNCHANGED <<args, flaky, url, document, base_url, viewed, filtered_urls,
                   internal_filtered_urls, target, cur, rt, out, fetched, err,
                   netfail, admittedLocs, admitted>>

\* main.rs 149-152 and 159-161
CheckImages ==
    /\ pc = "images"
    /\ IF args.check_images
       THEN BeginBatch("img")
       ELSE pc' = AfterDoc /\ UNCHANGED <<element, links, handles, batches>>
    /\ UNCHANGED <<args, flaky, url, document, base_url, viewed, filtered_urls,
                   internal_filtered_urls, target, cur, rt, out, fetched, err,
                   netfail, admittedLocs, admitted>>

\* main.rs 69-81: one iteration over the HashSet, in any order
Admit ==
    /\ pc = "fbl"
    /\ \E link \in links :
        /\ links' = links \ {link}
        /\ IF contains_key(viewed, link)
           THEN UNCHANGED <<viewed, rt, handles, admitted>>
           ELSE /\ viewed' = viewed \cup {link}
                /\ rt' = Append(rt, [url |-> link, st |-> "spawned",
                                     doc |-> cur.url, el |-> element])
                /\ handles' = Append(handles, Len(rt) + 1)
                /\ admitted' = Append(admitted,
                      [key |-> link, by |-> element, doc |-> cur.url])
    /\ UNCHANGED <<args, flaky, pc, url, document, base_url, filtered_urls,
                   internal_filtered_urls, target, cur, element, out, fetched,
                   err, netfail, admittedLocs, batches>>

\* main.rs 83-85: task.await?
Join ==
    /\ pc = "fbl"
    /\ links = {}
    /\ handles # <<>>
    /\ task_finished(rt[Head(handles)])
    /\ handles' = Tail(handles)
    /\ IF rt[Head(handles)].st = "panicked"
       THEN Fail("join")
       ELSE UNCHANGED <<pc, err>>
    /\ UNCHANGED <<args, flaky, url, document, base_url, viewed, filtered_urls,
                   internal_filtered_urls, target, cur, element, links, rt, out,
                   fetched, netfail, admittedLocs, admitted, batches>>

\* main.rs 87: Ok(()) back in main
Return ==
    /\ pc = "fbl"
    /\ links = {}
    /\ handles = <<>>
    /\ pc' = (IF element = "a" THEN "images" ELSE AfterDoc)
    /\ UNCHANGED <<args, flaky, url, document, base_url, viewed, filtered_urls,
                   internal_filtered_urls, target, cur, element, links, rt,
                   handles, out, fetched, err, netfail, admittedLocs, admitted, batches>>

\* main.rs 75 and 46: a task calls check_link, the request goes out
TaskProbe ==
    /\ pc # "exited"
    /\ \E i \in 1..Len(rt) :
        /\ rt[i].st = "spawned"
        /\ rt' = [rt EXCEPT ![i].st = "probing"]
    /\ UNCHANGED <<args, flaky, pc, url, document, base_url, viewed,
                   filtered_urls, internal_filtered_urls, target, cur, element,
                   links, handles, out, fetched, err, netfail, admittedLocs, admitted, batches>>

\* main.rs 46-50 and 75-79: check_link returns, unwrap, println
TaskReport ==
    /\ pc # "exited"
    /\ \E i \in 1..Len(rt) :
        /\ rt[i].st = "probing"
        /\ LET r == check_link(Status(rt[i].url, flaky)) IN
            IF r = <<>>
            THEN rt' = [rt EXCEPT ![i].st = "panicked"] /\ UNCHANGED out
            ELSE IF r[1]
            THEN /\ rt' = [rt EXCEPT ![i].st = "ok"]
                 /\ out' = Append(out, Line(rt[i].url, "is OK"))
            ELSE /\ rt' = [rt EXCEPT ![i].st = "broken"]
                 /\ out' = Append(out, Line(rt[i].url, "is Broken"))
    /\ UNCHANGED <<args, flaky, pc, url, document, base_url, viewed,
                   filtered_urls, internal_filtered_urls, target, cur, element,
                   links, handles, fetched, err, netfail, admittedLocs, admitted, batches>>

\* main returns Ok without the last println.
Finish_silent ==
    /\ pc = "finish"
    /\ pc' = "done"
    /\ UNCHANGED <<args, flaky, url, document, base_url, viewed, filtered_urls,
                   internal_filtered_urls, target, cur, element, links, rt,
                   handles, out, fetched, err, netfail, admittedLocs, admitted,
                   batches>>

\* main.rs 164-166
Finish ==
    /\ pc = "finish"
    /\ out' = Append(out, Done)
    /\ pc' = "done"
    /\ UNCHANGED <<args, flaky, url, document, base_url, viewed, filtered_urls,
                   internal_filtered_urls, target, cur, element, links, rt,
                   handles, fetched, err, netfail, admittedLocs, admitted, batches>>

\* main returns: the runtime is dropped and the process exits
Exit ==
    /\ pc \in {"done", "failed"}
    /\ pc' = "exited"
    /\ UNCHANGED <<args, flaky, url, document, base_url, viewed, filtered_urls,
                   internal_filtered_urls, target, cur, element, links, rt,
                   handles, out, fetched, err, netfail, admittedLocs, admitted, batches>>

Next ==
    \/ ParseRoot
    \/ FetchRoot
    \/ ResolveBase
    \/ Loop1
    \/ FetchSitemap
    \/ Loop2
    \/ FetchPage
    \/ CheckLinks
    \/ CheckImages
    \/ Admit
    \/ Join
    \/ Return
    \/ TaskProbe
    \/ TaskReport
    \/ Finish
    \/ Exit

Spec == Init /\ [][Next]_vars

----------------------------------------------------------------------------
(* Properties                                                              *)

Probed(i) == rt[i].st # "spawned"
Reported(i) == rt[i].st \in {"ok", "broken"}
LinesOf(u) == {k \in 1..Len(out) : out[k].url = u}
Printed(line) == \E k \in 1..Len(out) : out[k] = line

\* C1: check_link is invoked at most once per canonical URL in a run, also
\* when the URL is referenced by several documents, several times in one
\* document, or both as <a href> and as <img src>.
C1_ProbeAtMostOnce ==
    \A i, j \in 1..Len(rt) :
        (Probed(i) /\ Probed(j) /\ rt[i].url = rt[j].url) => i = j

\* A finished sitemap run with both kinds: FLAKY is referenced twice by the
\* <a> nodes of PQ and once by its <img> nodes, and x.test/c.png by an <img>
\* of PQ and an <a> of NP; each was probed.
C1_Witness ==
    /\ pc = "done"
    /\ args.is_xml_sitemap /\ args.links /\ args.check_images
    /\ \E i \in 1..Len(rt) : rt[i].url = FLAKY /\ Reported(i)
    /\ \E i \in 1..Len(rt) : rt[i].url = X(<<"/", "c.png">>) /\ Reported(i)
    /\ \E k \in 1..Len(fetched) : fetched[k].url = NP

\* C2 (as claimed): a probe that fails at transport level is reported as
\* "<url> is Broken" and is not fatal: a run whose documents were all fetched
\* and parsed ends with "Done!".
C2_TransportFailureIsBroken ==
    /\ \A i \in 1..Len(rt) :
          (task_finished(rt[i]) /\ Status(rt[i].url, flaky) = TransportError)
              => (rt[i].st = "broken" /\ Printed(Line(rt[i].url, "is Broken")))
    /\ (pc = "exited" /\ ~netfail /\ err # "urlparse") => Printed(Done)

DocFailure == netfail \/ err \in {"fetch", "urlparse"}

\* C3: a failed document fetch or a failed parse of a root or location URL
\* aborts the run at once: main is in the failed state, "Done!" is not
\* printed, and afterwards no document is fetched, no check is dispatched
\* or run and no line is printed.
C3_DocumentFailureAborts ==
    [][DocFailure' =>
          /\ pc' \in {"failed", "exited"}
          /\ ~Printed(Done)'
          /\ DocFailure => (fetched' = fetched /\ rt' = rt /\ out' = out
                             /\ viewed' = viewed)]_vars

\* A page fetch failed after earlier documents were fetched and checked.
C3_Witness ==
    /\ netfail /\ pc = "exited"
    /\ Len(fetched) >= 4
    /\ \E i \in 1..Len(rt) : Reported(i)

\* C4: a probe that received a response is reported OK iff the status is
\* 200, Broken otherwise, and exactly one line is printed for its URL.
C4_OkIffStatus200 ==
    \A i \in 1..Len(rt) :
        (task_finished(rt[i]) /\ Status(rt[i].url, flaky) # TransportError)
            => /\ Cardinality(LinesOf(rt[i].url)) = 1
               /\ \A k \in LinesOf(rt[i].url) :
                     out[k].text = (IF Status(rt[i].url, flaky) = "200"
                                    THEN "is OK" ELSE "is Broken")

\* Probes answered 204, 200 and 404 have all been reported.
C4_Witness ==
    /\ flaky = "204"
    /\ Printed(Line(FLAKY, "is Broken"))
    /\ Printed(Line(P2, "is OK"))
    /\ Printed(Line(X(<<"/", "dead">>), "is Broken"))

\* C5 (as claimed): in sitemap mode no URL is fetched as a document twice,
\* the fetch of the root included.
C5_FetchAtMostOnce ==
    args.is_xml_sitemap =>
        \A i, j \in 1..Len(fetched) : fetched[i].url = fetched[j].url => i = j

\* The location strings read so far from the root and first-level documents.
LocStrings ==
    UNION {Range(extract_urls(Web(fetched[k].url))) :
              k \in {n \in 1..Len(fetched) : fetched[n].level < 2}}

OffDomain(s) == ~Contains(s, host_str(base_url))

\* C6 (as claimed): a location string without the root base URL's host is
\* never in the visited set and never fetched.
C6_OffDomainNeverViewed ==
    (args.is_xml_sitemap /\ base_url # <<>>) =>
        \A s \in LocStrings :
            OffDomain(s) =>
                /\ s \notin viewed
                /\ \A k \in 1..Len(fetched) :
                      fetched[k].level > 0 => fetched[k].loc # s

\* C6 (amended): such a location string is never inserted by the sitemap
\* loops and never fetched as a first- or second-level document; every
\* location fetched at those levels contains the host.
C6_OffDomainNeverAdmittedAsLocation ==
    (args.is_xml_sitemap /\ base_url # <<>>) =>
        /\ \A s \in LocStrings :
              OffDomain(s) =>
                  /\ s \notin admittedLocs
                  /\ \A k \in 1..Len(fetched) :
                        fetched[k].level > 0 => fetched[k].loc # s
        /\ \A k \in 1..Len(fetched) :
              fetched[k].level > 0 => ~OffDomain(fetched[k].loc)
        /\ \A s \in admittedLocs : ~OffDomain(s)

\* The sitemap run over R finished: OUTS and OUTP were listed and left out,
\* the look-alike NP was fetched.
C6_Witness ==
    /\ pc = "done" /\ args.is_xml_sitemap /\ url = R
    /\ {OUTS, OUTP} \subseteq LocStrings
    /\ \E k \in 1..Len(fetched) : fetched[k].loc = NP

\* C7 (as claimed): every reference is resolved against the base URL of
\* the document that holds it.
C7_ResolvedAgainstOwnBase ==
    \A i \in 1..Len(rt) :
        rt[i].url \in
            UNION { resolved_links(b, Web(rt[i].doc), rt[i].el) :
                      b \in Range(get_base_url(rt[i].doc, Web(rt[i].doc))) }

\* C8: when "Done!" is printed every admitted reference has been
\* dispatched, every dispatched check has printed its line, and "Done!" is
\* the last line.
C8_DoneAfterAllChecks ==
    Printed(Done) =>
        /\ links = {} /\ handles = <<>>
        /\ \A u \in viewed \ admittedLocs : \E i \in 1..Len(rt) : rt[i].url = u
        /\ \A i \in 1..Len(rt) : Reported(i) /\ LinesOf(rt[i].url) # {}
        /\ out[Len(out)] = Done

\* A run printed "Done!" after several checks.
C8_Witness == pc = "done" /\ Len(rt) >= 4

\* The pages the root names through its in-domain second-level sitemaps.
ExpectedPages ==
    UNION { UNION { Range(url_parse(p)) :
                      p \in Range(filter_urls(extract_urls(Web(m)), base_url)) } :
              m \in UNION { Range(url_parse(s)) :
                      s \in Range(filter_urls(extract_urls(document), base_url)) } }

PageFetches(p) == {k \in 1..Len(fetched) : fetched[k].level = 2 /\ fetched[k].url = p}

\* C9 (as claimed): a finished sitemap run with find-broken-links fetched
\* each listed in-domain page exactly once, and checked links of those
\* pages only.
C9_EveryListedPageVisited ==
    (pc = "done" /\ args.is_xml_sitemap /\ args.links) =>
        /\ \A p \in ExpectedPages : Cardinality(PageFetches(p)) = 1
        /\ \A k \in 1..Len(fetched) :
              fetched[k].level = 2 => fetched[k].url \in ExpectedPages
        /\ \A i \in 1..Len(rt) : rt[i].doc \in ExpectedPages

Unresolvable(r) == Len(r) > 0 /\ r[1] = SCHEME /\ url_parse(r) = <<>>

\* C10: a raw reference that does not resolve is dropped: it is never in
\* the visited set, never iterated, probed or reported, and the other
\* references of the document are admitted all the same.
C10_UnresolvableDropped ==
    (pc = "fbl") =>
        \A n \in 1..Len(find_attr(cur.doc, element)) :
            LET r == find_attr(cur.doc, element)[n] IN
            IF Unresolvable(r)
            THEN /\ r \notin viewed /\ r \notin links
                 /\ \A i \in 1..Len(rt) : rt[i].url # r
                 /\ LinesOf(r) = {}
                 /\ err = "none"
            ELSE \A u \in Range(base_parse(base_url, r)) :
                    u \in links \/ u \in viewed

\* The <a> batch of PQ, which holds BADHOST, has admitted its other links.
C10_Witness ==
    /\ pc = "fbl" /\ links = {} /\ element = "a" /\ cur.url = PQ
    /\ BADHOST \in Range(find_attr(cur.doc, "a"))
    /\ {FLAKY, P2} \subseteq {rt[i].url : i \in 1..Len(rt)}

TaskUrls(d, el) == {rt[i].url : i \in {n \in 1..Len(rt) : rt[n].doc = d /\ rt[n].el = el}}

BatchJoined(d, el) == pc = "fbl" /\ links = {} /\ cur.url = d /\ element = el

BQRefs == {X(<<"/", "a", "/", "b">>), X(<<"/", "p", "/", "c.png">>), OUTP}

\* The resolution examples, on the page BQ whose declared base is
\* https://x.test/p/q: "/a/b" gives https://x.test/a/b, "c.png" gives
\* https://x.test/p/c.png and an absolute reference gives itself.
ResolutionExamples ==
    /\ TaskUrls(BQ, "a") \subseteq BQRefs
    /\ BatchJoined(BQ, "a") => TaskUrls(BQ, "a") = BQRefs

\* C11 (as claimed): the resolution examples hold, and "c.png" on the page
\* https://x.test/p/q without base declaration is probed at
\* https://x.test/p/c.png.
C11_PathRelativeAgainstPageUrl ==
    /\ ResolutionExamples
    /\ BatchJoined(PQ, "img") => X(<<"/", "p", "/", "c.png">>) \in viewed

\* C11 (amended): the resolution examples hold, and "c.png" on the page
\* https://x.test/p/q without base declaration is probed at
\* https://x.test/c.png, the base being the page URL cut before its path.
C11_PathRelativeAgainstTruncatedBase ==
    /\ ResolutionExamples
    /\ BatchJoined(PQ, "img") =>
          /\ X(<<"/", "c.png">>) \in viewed
          /\ X(<<"/", "p", "/", "c.png">>) \notin viewed

\* The page https://x.test/p/q was checked in page mode and the line of its
\* image c.png is printed.
C11_Witness ==
    /\ pc = "done" /\ cur.url = PQ /\ ~args.is_xml_sitemap
    /\ LinesOf(X(<<"/", "c.png">>)) # {}

Framing ==
    /\ out # <<>> => out[1] = Starting
    /\ \A k \in 1..Len(out) : out[k] = Starting => k = 1
    /\ \A k \in 1..Len(out) : out[k] = Done => k = Len(out)
    /\ (pc = "done" \/ (pc = "exited" /\ err = "none")) =>
          (out # <<>> /\ out[Len(out)] = Done)
    /\ Printed(Done) => err = "none"

\* C12 (as claimed): "Starting..." is printed before any document is
\* fetched, the root included; every check line lies between
\* "Starting..." and "Done!"; "Done!" is the last line of a successful run.
C12_StartingBeforeAnyFetch ==
    /\ Framing
    /\ fetched # <<>> => Printed(Starting)

\* C12 (amended): "Starting..." is printed after the root document was
\* fetched and its base resolved, before any location is fetched and before
\* any check line; the rest as claimed.
C12_StartingAfterRootFetch ==
    /\ Framing
    /\ Printed(Starting) => (fetched # <<>> /\ fetched[1].level = 0
                              /\ base_url # <<>>)
    /\ Len(fetched) > 1 => Printed(Starting)
    /\ rt # <<>> => Printed(Starting)

\* A sitemap run printed check lines between the two lifecycle lines.
C12_Witness ==
    /\ pc = "done" /\ args.is_xml_sitemap
    /\ Len(out) >= 5 /\ out[1] = Starting /\ out[Len(out)] = Done

Outstanding(i) == rt[i].st \in {"spawned", "probing"}

\* C13: all outstanding checks belong to the batch in progress; main
\* fetches no document and starts no other batch while one is outstanding.
C13_JoinBeforeContinue ==
    \A i \in 1..Len(rt) :
        Outstanding(i) =>
            /\ pc \in {"fbl", "failed", "exited"}
            /\ pc # "fbl" => err = "join"
            /\ rt[i].doc = cur.url /\ rt[i].el = element
            /\ batches[Len(batches)] = [doc |-> rt[i].doc, el |-> rt[i].el]

\* Two checks of the <img> batch are outstanding, the <a> batch is over.
C13_Witness ==
    /\ pc = "fbl" /\ element = "img"
    /\ Cardinality({i \in 1..Len(rt) : Outstanding(i)}) >= 2
    /\ \E k \in 1..Len(rt) : rt[k].el = "a" /\ ~Outstanding(k)

\* C14: viewed is read and written by main only, one key per step and
\* never a key it already holds; a step of a task leaves it alone, so no
\* URL passes the admission test twice under any interleaving.
C14_AdmissionIndivisible ==
    [][/\ viewed' # viewed =>
             /\ pc \in {"loop1", "loop2", "fbl"}
             /\ \E k \in viewed' \ viewed :
                   /\ viewed' = viewed \cup {k}
                   /\ Len(admitted') = Len(admitted) + 1
                   /\ admitted'[Len(admitted')].key = k
             /\ \A i \in 1..Len(rt) : rt'[i] = rt[i]
       /\ (\E i \in 1..Len(rt) : rt'[i] # rt[i]) =>
             (viewed' = viewed /\ admitted' = admitted)
       /\ \A i, j \in 1..Len(admitted') :
             admitted'[i].key = admitted'[j].key => i = j
       /\ Len(admitted') = Cardinality(viewed')]_vars

\* A check of the current batch is in flight while the loop still has links
\* to admit.
C14_Witness ==
    /\ pc = "fbl" /\ links # {} /\ admitted # <<>>
    /\ \E i \in 1..Len(rt) :
          rt[i].st = "probing" /\ rt[i].doc = cur.url /\ rt[i].el = element
    /\ \E u \in links : u \in viewed

Idx(q, x) == CHOOSE i \in 1..Len(q) : q[i] = x /\ \A j \in 1..(i-1) : q[j] # x

\* The first-level fetch under which the second-level fetch k was made.
Parent(k) ==
    CHOOSE j \in 1..(k-1) :
        fetched[j].level = 1 /\ \A n \in (j+1)..(k-1) : fetched[n].level # 1

\* C15: documents are fetched one after the other in extraction order:
\* first-level locations in the order of the root sitemap, the pages of a
\* first-level sitemap in its order and before the next first-level
\* sitemap, and never while a check is outstanding.
C15_SequentialInOrder ==
    /\ \A a, b \in 1..Len(fetched) :
          (a < b /\ fetched[a].level = 1 /\ fetched[b].level = 1) =>
              Idx(document.loc, fetched[a].loc) < Idx(document.loc, fetched[b].loc)
    /\ \A a \in 1..Len(fetched) :
          fetched[a].level = 2 =>
              /\ \E j \in 1..(a-1) : fetched[j].level = 1
              /\ fetched[a].loc \in Range(Web(fetched[Parent(a)].url).loc)
    /\ \A a, b \in 1..Len(fetched) :
          (a < b /\ fetched[a].level = 2 /\ fetched[b].level = 2
             /\ Parent(a) = Parent(b)) =>
              Idx(Web(fetched[Parent(a)].url).loc, fetched[a].loc)
                < Idx(Web(fetched[Parent(a)].url).loc, fetched[b].loc)
    /\ \A a \in 1..Len(fetched) : fetched[a].level = 0 <=> a = 1
    /\ pc \in {"fetch_root", "fetch1", "fetch2"} =>
          \A i \in 1..Len(rt) : ~Outstanding(i)

\* Both first-level sitemaps were fetched, with two pages under each.
C15_Witness ==
    /\ pc = "done"
    /\ \E a, b, c, d, e, f \in 1..Len(fetched) :
          /\ a < b /\ b < c /\ c < d /\ d < e /\ e < f
          /\ fetched[a].url = S1 /\ fetched[b].url = PQ /\ fetched[c].url = P2
          /\ fetched[d].url = S2 /\ fetched[e].url = NP /\ fetched[f].url = R
          /\ \E i \in 1..Len(rt) : rt[i].doc = PQ

IsRef(i) == admitted[i].by \in {"a", "img"}

\* Position in its document of the first node whose reference resolves to
\* the admitted URL i.
FirstRaw(i) ==
    LET raws == find_attr(Web(admitted[i].doc), admitted[i].by) IN
    CHOOSE n \in 1..Len(raws) :
        /\ admitted[i].key \in Range(base_parse(base_url, raws[n]))
        /\ \A m \in 1..(n-1) :
              admitted[i].key \notin Range(base_parse(base_url, raws[m]))

BatchOf(i) == Idx(batches, [doc |-> admitted[i].doc, el |-> admitted[i].by])

\* Locations are admitted in the order of their sitemap, a page before its
\* references, and the references batch after batch.
AdmissionFollowsDocuments ==
    \A i, j \in 1..Len(admitted) :
        i < j =>
            /\ (admitted[i].by = admitted[j].by /\ ~IsRef(i)
                  /\ admitted[i].doc = admitted[j].doc) =>
                  Idx(Web(admitted[i].doc).loc, admitted[i].key)
                    < Idx(Web(admitted[i].doc).loc, admitted[j].key)
            /\ (IsRef(i) /\ IsRef(j)) => BatchOf(i) <= BatchOf(j)
            /\ (IsRef(i) /\ admitted[j].by = "loc2") =>
                  <<admitted[j].key>> # url_parse(admitted[j].key)
                     \/ admitted[i].doc # admitted[j].key

\* C16 (as claimed): admission follows extraction order, and within one
\* document the references are admitted in the order they occur in it.
C16_AdmissionInReferenceOrder ==
    /\ AdmissionFollowsDocuments
    /\ \A i, j \in 1..Len(admitted) :
          (i < j /\ IsRef(i) /\ IsRef(j) /\ BatchOf(i) = BatchOf(j)) =>
              FirstRaw(i) < FirstRaw(j)

\* C16 (amended): admission follows extraction order document by document
\* and batch by batch; within a batch the references are admitted in the
\* set's iteration order, and every reference of the batch that was not
\* yet in viewed is admitted whatever that order is.
C16_AdmissionInBatchOrder ==
    /\ AdmissionFollowsDocuments
    /\ \A b \in 1..Len(batches) :
          (b < Len(batches) \/ (links = {} /\ pc # "links" /\ pc # "images")) =>
              resolved_links(base_url, Web(batches[b].doc), batches[b].el)
                  \subseteq viewed

\* Two links of one batch were admitted against their order in the
\* document, and an <img> batch followed the <a> batch of the same page.
C16_Witness ==
    /\ args.is_xml_sitemap
    /\ \E i, j \in 1..Len(admitted) :
          /\ i < j /\ IsRef(i) /\ IsRef(j) /\ BatchOf(i) = BatchOf(j)
          /\ FirstRaw(i) > FirstRaw(j)
    /\ \E i, j \in 1..Len(admitted) :
          /\ i < j /\ admitted[i].by = "a" /\ admitted[j].by = "img"
          /\ admitted[i].doc = admitted[j].doc
    /\ \E i, j \in 1..Len(admitted) :
          i < j /\ admitted[i].by = "loc2" /\ admitted[j].by = "loc2"

\* Every request returns and every runnable task and main itself are
\* scheduled: a step that can be taken is eventually taken.
FairSpec == Spec /\ WF_vars(Next)

\* C17: when every fetch and every probe returns, the run reaches a
\* terminal state, with "Done!" printed or with a fatal error.
C17_Termination ==
    <>(pc = "exited" /\ (Printed(Done) \/ err # "none"))

\* A run over sitemaps that list the root again has ended with "Done!".
C17_Witness ==
    /\ pc = "exited" /\ Printed(Done) /\ args.is_xml_sitemap
    /\ \E k \in 1..Len(fetched) : fetched[k].level = 2 /\ fetched[k].url = R
    /\ rt # <<>>

Requested(el) == IF el = "a" THEN args.links ELSE args.check_images

\* C18: in page mode the root is the only document fetched and each kind is
\* checked at most once on it; href URLs are probed only with
\* find-broken-links and src URLs only with find-broken-images; with
\* neither flag nothing is probed and viewed gets no reference URL.
C18_ModeAndKindSelection ==
    /\ ~args.is_xml_sitemap =>
          /\ Len(fetched) <= 1
          /\ \A a, b \in 1..Len(batches) : batches[a].el = batches[b].el => a = b
          /\ \A b \in 1..Len(batches) : batches[b].doc = url
    /\ \A b \in 1..Len(batches) : Requested(batches[b].el)
    /\ \A i \in 1..Len(rt) :
          /\ Requested(rt[i].el)
          /\ rt[i].url \in resolved_links(base_url, Web(rt[i].doc), rt[i].el)
    /\ \A i \in 1..Len(admitted) : IsRef(i) => Requested(admitted[i].by)
    /\ (~args.links /\ ~args.check_images) =>
          (rt = <<>> /\ batches = <<>> /\ viewed = admittedLocs)

\* The page /p/q, which has links and images, was checked for images only.
C18_Witness ==
    /\ pc = "done" /\ ~args.is_xml_sitemap /\ url = PQ
    /\ ~args.links /\ args.check_images
    /\ Len(batches) = 1 /\ Len(rt) >= 3

\* C19: in a run that reached "Done!" every admitted reference has exactly
\* one report line, and there are as many report lines as references
\* admitted.
C19_OneLinePerAdmittedReference ==
    Printed(Done) =>
        /\ \A i \in 1..Len(admitted) :
              IsRef(i) =>
                  /\ Cardinality(LinesOf(admitted[i].key)) = 1
                  /\ \A k \in LinesOf(admitted[i].key) :
                        out[k].text \in {"is OK", "is Broken"}
        /\ Cardinality({k \in 1..Len(out) : out[k].text \in {"is OK", "is Broken"}})
             = Cardinality({admitted[i].key : i \in {n \in 1..Len(admitted) : IsRef(n)}})

\* The page /p/q checked for links and images: /dead answered 404 and is
\* reported Broken, c.png answered 200 and is reported OK, then "Done!".
C19_Witness ==
    /\ pc = "done" /\ url = PQ /\ ~args.is_xml_sitemap
    /\ Printed(Line(X(<<"/", "dead">>), "is Broken"))
    /\ Printed(Line(X(<<"/", "c.png">>), "is OK"))
    /\ out[Len(out)] = Done

(* The outcome of the run in which every check completes as soon as it is *)
(* spawned, computed from the command line, the documents and the         *)
(* statuses alone.                                                        *)

RefText(u) == IF Status(u, flaky) = "200" THEN "is OK" ELSE "is Broken"

RefBatch(acc, doc, el) ==
    IF ~acc.ok \/ ~Requested(el) THEN acc
    ELSE LET new == resolved_links(base_url, doc, el) \ acc.v IN
         [v     |-> acc.v \cup new,
          lines |-> acc.lines \cup
                      {Line(u, RefText(u)) :
                          u \in {w \in new : Status(w, flaky) # TransportError}},
          docs  |-> acc.docs,
          ok    |-> \A u \in new : Status(u, flaky) # TransportError]

RefPage(acc, doc) == RefBatch(RefBatch(acc, doc, "a"), doc, "img")

RECURSIVE RefPages(_, _)
RefPages(acc, locs) ==
    IF locs = <<>> \/ ~acc.ok THEN acc
    ELSE IF Head(locs) \in acc.v THEN RefPages(acc, Tail(locs))
    ELSE IF url_parse(Head(locs)) = <<>>
    THEN [acc EXCEPT !.v = @ \cup {Head(locs)}, !.ok = FALSE]
    ELSE RefPages(RefPage([acc EXCEPT !.v = @ \cup {Head(locs)},
                                      !.docs = @ \cup Range(url_parse(Head(locs)))],
                          Web(url_parse(Head(locs))[1])),
                  Tail(locs))

RECURSIVE RefSitemaps(_, _)
RefSitemaps(acc, locs) ==
    IF locs = <<>> \/ ~acc.ok THEN acc
    ELSE IF Head(locs) \in acc.v THEN RefSitemaps(acc, Tail(locs))
    ELSE IF url_parse(Head(locs)) = <<>>
    THEN [acc EXCEPT !.v = @ \cup {Head(locs)}, !.ok = FALSE]
    ELSE RefSitemaps(
            RefPages([acc EXCEPT !.v = @ \cup {Head(locs)},
                                 !.docs = @ \cup Range(url_parse(Head(locs)))],
                     filter_urls(extract_urls(Web(url_parse(Head(locs))[1])),
                                 base_url)),
            Tail(locs))

RefRun ==
    LET acc0 == [v |-> {}, lines |-> {}, docs |-> {url}, ok |-> TRUE] IN
    IF args.is_xml_sitemap
    THEN RefSitemaps(acc0, filter_urls(extract_urls(document), base_url))
    ELSE RefPage(acc0, document)

CheckLines == {out[k] : k \in {n \in 1..Len(out) : out[n].url # <<>>}}

\* C20 (as claimed): with all documents served, the documents fetched, the
\* final visited set and the set of report lines of a finished run are the
\* same under every interleaving of the checks and every iteration order.
C20_OutcomeIndependentOfScheduling ==
    (pc = "exited" /\ ~netfail /\ base_url # <<>>) =>
        /\ {fetched[k].url : k \in 1..Len(fetched)} = RefRun.docs
        /\ viewed = RefRun.v
        /\ CheckLines = RefRun.lines
        /\ Printed(Done) <=> RefRun.ok

\* The same, for the runs in which no probe fails at transport level.
OutcomeFixedWithoutPanic ==
    flaky # TransportError => C20_OutcomeIndependentOfScheduling

====
